---- MODULE Spec2Model ----
(***************************************************************************)
(* Model of the SDRT client scripts and shell scripts.                     *)
(*                                                                         *)
(*   MR  the 'table demande dachat' row calculators                        *)
(*       (table_demande_dachat.js, and the Material Request form script)   *)
(*   PR  the Purchase Receipt Item guards (three form scripts)             *)
(*   PO  the Purchase Order form script and its budget-line import         *)
(*   IN  install_on_target.sh                                              *)
(*   VA  the validation script                                             *)
(*                                                                         *)
(* Each part has its own specification; the variables of the other parts   *)
(* stay at their idle values.                                              *)
(***************************************************************************)
EXTENDS Integers, Sequences, FiniteSets, TLC

VARIABLES
    \* ---- MR
    registered,     \* the form scripts registered for 'table demande dachat', in order
    dd,             \* frm.doc.demande_dachat: the rows of the child table
    total_estimation, \* frm.doc.total_estimation
    mr_last,        \* what the last event did (history, for the properties)
    \* ---- PR
    pr_script,      \* the Purchase Receipt form script that is loaded
    pr_items,       \* frm.doc.items of the Purchase Receipt
    pr_pending,     \* field events triggered and not yet handled
    pr_rpc,         \* ensure_budget_item calls in flight
    pr_dashboard,   \* the dashboard comment of refresh is shown
    pr_ops,         \* user operations so far
    pr_last,        \* what the last handler did (history, for the properties)
    \* ---- PO
    po_doc,         \* frm.doc of the Purchase Order: the fields the script reads
    po_items,       \* frm.doc.items of the Purchase Order
    po_pending,     \* field events triggered and not yet handled
    po_rpc,         \* description calls (frappe.client.get_value) in flight
    po_fetching,    \* a fetch_da_lines call is in flight (the form is frozen)
    po_timers,      \* setTimeout callbacks of add_budget_lines_to_po not yet run
    po_button,      \* the custom button is on the form
    po_msg,         \* the last message shown by msgprint or show_alert
    po_ops,         \* user operations so far
    po_writes,      \* set_value writes to item_code by handlers since the last edit
    po_last,        \* what the last handler did (history, for the properties)
    \* ---- IN
    in_env,         \* the directory the script runs in, and its argument
    in_pc,          \* the check or step the script is at
    in_exit,        \* the exit status, once the script has ended
    in_fs,          \* what the script has changed on disk
    in_cmds,        \* the bench commands invoked, in order
    in_steps,       \* the steps executed, in order
    in_failed,      \* the steps whose command failed
    in_out,         \* the messages printed
    \* ---- VA
    va_pc,          \* the check the validation script is at
    va_i,           \* the index of the loop the script is in
    va_present,     \* the files of FILES_TO_CHECK found present
    MISSING_FILES,  \* the script's counter of failed checks
    va_failed,      \* the checks that failed
    va_exit         \* the exit status, once the script has ended

mrVars == <<registered, dd, total_estimation, mr_last>>
prVars == <<pr_script, pr_items, pr_pending, pr_rpc, pr_dashboard, pr_ops, pr_last>>
poVars == <<po_doc, po_items, po_pending, po_rpc, po_fetching, po_timers, po_button,
            po_msg, po_ops, po_writes, po_last>>

inVars == <<in_env, in_pc, in_exit, in_fs, in_cmds, in_steps, in_failed, in_out>>
vaVars == <<va_pc, va_i, va_present, MISSING_FILES, va_failed, va_exit>>

vars == <<mrVars, prVars, poVars, inVars, vaVars>>

----------------------------------------------------------------------------
(* Values of a form field: a number, a missing value (undefined / null) or *)
(* a text that is no number.                                               *)

Num(n) == <<"num", n>>
Missing == <<"missing", 0>>
Txt == <<"txt", 0>>

\* flt(v) || 0 : flt gives the number, 0 for a missing value, NaN for a text
\* that is no number; NaN || 0 and 0 || 0 are 0.
fltOr0(v) == IF v[1] = "num" THEN v[2] ELSE 0

----------------------------------------------------------------------------
(* MR: the row calculators                                                 *)

MaxRows == 2

QteVals == {Missing, Txt, Num(-1), Num(0), Num(3), Num(4)}
PuVals == {Missing, Txt, Num(-2), Num(0), Num(10)}

\* The two scripts that register handlers for 'table demande dachat'.
DoctypeScript == "table_demande_dachat.js"
FormScript == "material_request form script"

\* table_demande_dachat.js comes with the doctype, the form script with the
\* Material Request form: a form has one of them, or both in either order.
Registrations ==
    { <<DoctypeScript>>, <<FormScript>>,
      <<DoctypeScript, FormScript>>, <<FormScript, DoctypeScript>> }

NewRow == [qte |-> Missing, pu |-> Missing, estimation |-> Missing]

\* compute(cdt, cdn) of table_demande_dachat.js on row r: the row after it,
\* the number of frappe.model.set_value calls, and whether it threw.
compute(r) ==
    LET q == fltOr0(r.qte)
        pu == fltOr0(r.pu)
        est == q * pu
    IN  IF est >= 0 /\ r.estimation # Num(est)
        THEN [row |-> [r EXCEPT !.estimation = Num(est)], writes |-> 1, threw |-> FALSE]
        ELSE [row |-> r, writes |-> 0, threw |-> FALSE]

\* recalc_total(frm): its definition is commented out, so the call throws a
\* ReferenceError and nothing is written.
recalc_total_defined == FALSE

\* recalc_row_and_total(cdt, cdn, frm) of the form script on row r.
recalc_row_and_total(r) ==
    LET qty == fltOr0(r.qte)
        pu == fltOr0(r.pu)
        new_estimation == qty * pu
    IN  IF r.estimation # Num(new_estimation)
        THEN [row |-> [r EXCEPT !.estimation = Num(new_estimation)], writes |-> 1,
              threw |-> ~recalc_total_defined]
        ELSE [row |-> r, writes |-> 0, threw |-> ~recalc_total_defined]

\* The events whose form-script handler is the bare call recalc_total(frm).
TotalOnlyEvents == {"refresh", "demande_dachat_remove", "demande_dachat_add"}

\* The handlers a script registers, for the child table and (form script) for
\* the Material Request itself.
Handles(script, event) ==
    IF script = DoctypeScript THEN event \in {"qte", "pu", "form_render"}
    ELSE event \in {"qte", "pu"} \cup TotalOnlyEvents

RunHandler(script, event, r) ==
    IF script = DoctypeScript THEN compute(r)
    ELSE IF event \in TotalOnlyEvents
         THEN [row |-> r, writes |-> 0, threw |-> ~recalc_total_defined]
         ELSE recalc_row_and_total(r)

\* The handlers of one event run one after the other in registration order; a
\* handler that throws ends the chain.
RECURSIVE Dispatch(_, _, _)
Dispatch(scripts, event, acc) ==
    IF scripts = <<>> \/ acc.threw THEN acc
    ELSE IF ~Handles(Head(scripts), event) THEN Dispatch(Tail(scripts), event, acc)
    ELSE LET res == RunHandler(Head(scripts), event, acc.row)
         IN  Dispatch(Tail(scripts), event,
                      [row |-> res.row, writes |-> acc.writes + res.writes,
                       threw |-> res.threw, ran |-> acc.ran + 1])

Product(r) == fltOr0(r.qte) * fltOr0(r.pu)

NoEvent == [event |-> "none", row |-> 0, before |-> NewRow, edited |-> NewRow,
            writes |-> 0, ran |-> 0, threw |-> FALSE]

MRInit ==
    /\ registered \in Registrations
    /\ dd = <<>>
    /\ total_estimation = Missing
    /\ mr_last = NoEvent

MRIdle ==
    /\ registered = <<>>
    /\ dd = <<>>
    /\ total_estimation = Missing
    /\ mr_last = NoEvent

\* The grid's "Add Row": a new row, then the demande_dachat_add event.
AddRow ==
    /\ Len(dd) < MaxRows
    /\ LET res == Dispatch(registered, "demande_dachat_add",
                           [row |-> NewRow, writes |-> 0, threw |-> FALSE, ran |-> 0])
       IN  /\ dd' = Append(dd, res.row)
           /\ mr_last' = [event |-> "demande_dachat_add", row |-> Len(dd) + 1,
                          before |-> NewRow, edited |-> NewRow,
                          writes |-> res.writes, ran |-> res.ran, threw |-> res.threw]
    /\ UNCHANGED <<registered, total_estimation>>
    /\ UNCHANGED <<prVars, poVars, inVars, vaVars>>

\* The user edits field f of row i: the model takes the value, then the event
\* of the field runs (only when the value changed).
EditField(i, f, v) ==
    /\ i \in 1..Len(dd)
    /\ dd[i][f] # v
    /\ LET edited == [dd[i] EXCEPT ![f] = v]
           res == Dispatch(registered, f,
                           [row |-> edited, writes |-> 0, threw |-> FALSE, ran |-> 0])
       IN  /\ dd' = [dd EXCEPT ![i] = res.row]
           /\ mr_last' = [event |-> f, row |-> i, before |-> dd[i], edited |-> edited,
                          writes |-> res.writes, ran |-> res.ran, threw |-> res.threw]
    /\ UNCHANGED <<registered, total_estimation>>
    /\ UNCHANGED <<prVars, poVars, inVars, vaVars>>

EditQte == \E i \in 1..MaxRows, v \in QteVals : EditField(i, "qte", v)
EditPu == \E i \in 1..MaxRows, v \in PuVals : EditField(i, "pu", v)

\* The inline form of row i is opened: the form_render event.
FormRender ==
    \E i \in 1..Len(dd) :
        LET res == Dispatch(registered, "form_render",
                            [row |-> dd[i], writes |-> 0, threw |-> FALSE, ran |-> 0])
        IN  /\ dd' = [dd EXCEPT ![i] = res.row]
            /\ mr_last' = [event |-> "form_render", row |-> i, before |-> dd[i],
                           edited |-> dd[i],
                           writes |-> res.writes, ran |-> res.ran, threw |-> res.threw]
            /\ UNCHANGED <<registered, total_estimation>>
            /\ UNCHANGED <<prVars, poVars, inVars, vaVars>>

\* The form is loaded or reloaded: the refresh event of the Material Request.
MRRefresh ==
    /\ mr_last.event # "refresh"
    /\ LET res == Dispatch(registered, "refresh",
                           [row |-> NewRow, writes |-> 0, threw |-> FALSE, ran |-> 0])
       IN  mr_last' = [event |-> "refresh", row |-> 0, before |-> NewRow,
                       edited |-> NewRow,
                       writes |-> res.writes, ran |-> res.ran, threw |-> res.threw]
    /\ UNCHANGED <<registered, dd, total_estimation>>
    /\ UNCHANGED <<prVars, poVars, inVars, vaVars>>

RemoveAt(s, i) == SubSeq(s, 1, i - 1) \o SubSeq(s, i + 1, Len(s))

\* The grid's delete of row i: the row leaves the table, then the
\* demande_dachat_remove event runs.
RemoveRow ==
    \E i \in 1..Len(dd) :
        LET res == Dispatch(registered, "demande_dachat_remove",
                            [row |-> dd[i], writes |-> 0, threw |-> FALSE, ran |-> 0])
        IN  /\ dd' = RemoveAt(dd, i)
            /\ mr_last' = [event |-> "demande_dachat_remove", row |-> 0,
                           before |-> dd[i], edited |-> dd[i],
                           writes |-> res.writes, ran |-> res.ran, threw |-> res.threw]
            /\ UNCHANGED <<registered, total_estimation>>
            /\ UNCHANGED <<prVars, poVars, inVars, vaVars>>

MRNext == AddRow \/ EditQte \/ EditPu \/ FormRender \/ MRRefresh \/ RemoveRow

----------------------------------------------------------------------------
(* Strings of the item codes: sequences of characters.                     *)

Digits == {"0", "1", "2", "4", "7"}

\* /^\d+$/.test(s): one or more characters, all of them digits.
IsDigits(s) == Len(s) > 0 /\ \A i \in 1..Len(s) : s[i] \in Digits

Empty == <<>>
BUDGET_LINE == <<"B", "U", "D", "G", "E", "T", "-", "L", "I", "N", "E">>
Nos == <<"N", "o", "s">>

----------------------------------------------------------------------------
(* PR: the Purchase Receipt Item guards                                    *)

MaxPRItems == 2
MaxPROps == 3

PublicScript == "public/js/purchase_receipt.js"
CustomScript == "sdrt/custom/purchase_receipt.js"
ReceiptScript == "purchase receipt form script"

PRScripts == {PublicScript, CustomScript, ReceiptScript}

\* What the user types into item_code and code_analytique.
ItemCodeInputs == {Empty, <<"1">>, <<"4", "2">>, <<"I", "T">>}
CodeAnalytiqueInputs == {Empty, <<"B", "1">>, <<"7">>}

NewPRItem == [item_code |-> Empty, code_analytique |-> Empty, item_name |-> Empty,
              uom |-> Empty, stock_uom |-> Empty, conversion_factor |-> 0]

\* set_value triggering the field's event even when the value is the same.
SetValue_always_triggers(r, i, f, v, events) ==
    [row |-> [r EXCEPT ![f] = v], events |-> Append(events, [row |-> i, field |-> f])]

\* frappe.model.set_value(cdt, cdn, field, value) on a row: the row after it,
\* and the events it triggers (one, when the value changed).
SetValue(r, i, f, v, events) ==
    IF r[f] = v THEN [row |-> r, events |-> events]
    ELSE [row |-> [r EXCEPT ![f] = v], events |-> Append(events, [row |-> i, field |-> f])]

\* item_code handler of public/js/purchase_receipt.js
public_item_code(d, i) ==
    IF d.item_code # Empty /\ IsDigits(d.item_code)
    THEN LET fallback == d.code_analytique
         IN  IF fallback # Empty
             THEN SetValue(d, i, "item_code", fallback, <<>>) @@ [alert |-> FALSE]
             ELSE [row |-> d, events |-> <<>>, alert |-> FALSE]
    ELSE [row |-> d, events |-> <<>>, alert |-> FALSE]

\* item_code handler of sdrt/custom/purchase_receipt.js
custom_item_code(item, i) ==
    IF item.item_code # Empty /\ IsDigits(item.item_code)
    THEN SetValue(item, i, "item_code", BUDGET_LINE, <<>>) @@ [alert |-> TRUE]
    ELSE [row |-> item, events |-> <<>>, alert |-> FALSE]

\* item_code handler of the Purchase Receipt form script
receipt_item_code(item, i) ==
    IF item.item_code # Empty /\ IsDigits(item.item_code)
    THEN LET fallback == item.code_analytique
         IN  (IF fallback # Empty
              THEN SetValue(item, i, "item_code", fallback, <<>>)
              ELSE [row |-> item, events |-> <<>>]) @@ [alert |-> TRUE]
    ELSE [row |-> item, events |-> <<>>, alert |-> FALSE]

item_code_handler(script, r, i) ==
    IF script = PublicScript THEN public_item_code(r, i)
    ELSE IF script = CustomScript THEN custom_item_code(r, i)
    ELSE receipt_item_code(r, i)

\* validate handler (of a row) of the Purchase Receipt form script
receipt_validate(item, i) ==
    IF item.item_code # Empty /\ IsDigits(item.item_code)
    THEN LET fallback == item.code_analytique
         IN  IF fallback # Empty
             THEN SetValue(item, i, "item_code", fallback, <<>>)
             ELSE [row |-> item, events |-> <<>>]
    ELSE [row |-> item, events |-> <<>>]

\* s.startsWith(p)
StartsWith(s, p) == Len(s) >= Len(p) /\ SubSeq(s, 1, Len(p)) = p

\* validate handler (of a row) of sdrt/custom/purchase_receipt.js
custom_validate(item, i) ==
    IF /\ item.item_code # Empty
       /\ ~StartsWith(item.item_code, BUDGET_LINE)
       /\ IsDigits(item.item_code)
    THEN SetValue(item, i, "item_code", BUDGET_LINE, <<>>)
    ELSE [row |-> item, events |-> <<>>]

\* public/js/purchase_receipt.js registers no validate handler.
validate_handler(script, r, i) ==
    IF script = CustomScript THEN custom_validate(r, i)
    ELSE IF script = ReceiptScript THEN receipt_validate(r, i)
    ELSE [row |-> r, events |-> <<>>]

\* before_save of the Purchase Receipt form script: every row in turn.
RECURSIVE before_save(_, _, _)
before_save(items, i, events) ==
    IF i > Len(items) THEN [items |-> items, events |-> events]
    ELSE LET item == items[i]
         IN  IF /\ item.item_code # Empty
                /\ IsDigits(item.item_code)
                /\ item.code_analytique # Empty
             THEN LET res == SetValue(item, i, "item_code", item.code_analytique, events)
                  IN  before_save([items EXCEPT ![i] = res.row], i + 1, res.events)
             ELSE before_save(items, i + 1, events)

\* The rows refresh counts as invalid.
invalid_items(items) ==
    {i \in 1..Len(items) : items[i].item_code # Empty /\ IsDigits(items[i].item_code)}

\* The answers of sdrt.sdrt.custom.ensure_budget_item for a budget code: no
\* message, or the Item of that code.
EnsureBudgetItemAnswers(code) ==
    { [message |-> FALSE, item_code |-> Empty, item_name |-> Empty, stock_uom |-> Empty] }
    \cup { [message |-> TRUE, item_code |-> code, item_name |-> n, stock_uom |-> u] :
             n \in {Empty, <<"d">>}, u \in {Empty, <<"K", "g">>} }

\* The last operation: its row, the items before it, whether it showed an
\* alert, and (for a callback that carried an Item) the code it answered.
NoPROp == [op |-> "none", row |-> 0, before |-> <<>>, alert |-> FALSE, answered |-> Empty]

PRInit ==
    /\ pr_script \in PRScripts
    /\ pr_items = <<>>
    /\ pr_pending = <<>>
    /\ pr_rpc = {}
    /\ pr_dashboard = FALSE
    /\ pr_ops = 0
    /\ pr_last = NoPROp

PRIdle ==
    /\ pr_script = PublicScript
    /\ pr_items = <<>>
    /\ pr_pending = <<>>
    /\ pr_rpc = {}
    /\ pr_dashboard = FALSE
    /\ pr_ops = 0
    /\ pr_last = NoPROp

\* The grid's "Add Row".
PRAddRow ==
    /\ pr_pending = <<>>
    /\ Len(pr_items) < MaxPRItems
    /\ pr_items' = Append(pr_items, NewPRItem)
    /\ pr_last' = [op |-> "add_row", row |-> Len(pr_items) + 1, before |-> pr_items,
                   alert |-> FALSE, answered |-> Empty]
    /\ UNCHANGED <<pr_script, pr_pending, pr_rpc, pr_dashboard, pr_ops>>
    /\ UNCHANGED <<mrVars, poVars, inVars, vaVars>>

\* The user types a value into field f of row i: the model takes it and the
\* field's event is triggered. The user acts when the events of the previous
\* operation have been handled.
PRUserEdit(i, f, v) ==
    /\ pr_pending = <<>>
    /\ pr_ops < MaxPROps
    /\ i \in 1..Len(pr_items)
    /\ pr_items[i][f] # v
    /\ pr_items' = [pr_items EXCEPT ![i][f] = v]
    /\ pr_pending' = Append(pr_pending, [row |-> i, field |-> f])
    /\ pr_ops' = pr_ops + 1
    /\ pr_last' = [op |-> "edit", row |-> i, before |-> pr_items, alert |-> FALSE,
                   answered |-> Empty]
    /\ UNCHANGED <<pr_script, pr_rpc, pr_dashboard>>
    /\ UNCHANGED <<mrVars, poVars, inVars, vaVars>>

PREditItemCode == \E i \in 1..MaxPRItems, v \in ItemCodeInputs : PRUserEdit(i, "item_code", v)
PREditCodeAnalytique ==
    \E i \in 1..MaxPRItems, v \in CodeAnalytiqueInputs : PRUserEdit(i, "code_analytique", v)

\* The item_code event at the head of the queue is handled.
PRItemCode ==
    /\ pr_pending # <<>>
    /\ Head(pr_pending).field = "item_code"
    /\ LET i == Head(pr_pending).row
           res == item_code_handler(pr_script, pr_items[i], i)
       IN  /\ pr_items' = [pr_items EXCEPT ![i] = res.row]
           /\ pr_pending' = Tail(pr_pending) \o res.events
           /\ pr_last' = [op |-> "item_code", row |-> i, before |-> pr_items,
                          alert |-> res.alert, answered |-> Empty]
    /\ UNCHANGED <<pr_script, pr_rpc, pr_dashboard, pr_ops>>
    /\ UNCHANGED <<mrVars, poVars, inVars, vaVars>>

\* The code_analytique event at the head of the queue is handled: only
\* public/js/purchase_receipt.js has a handler, which calls ensure_budget_item.
PRCodeAnalytique ==
    /\ pr_pending # <<>>
    /\ Head(pr_pending).field = "code_analytique"
    /\ LET i == Head(pr_pending).row
           d == pr_items[i]
       IN  pr_rpc' = IF pr_script = PublicScript /\ d.code_analytique # Empty
                     THEN pr_rpc \cup {[row |-> i, code |-> d.code_analytique]}
                     ELSE pr_rpc
    /\ pr_pending' = Tail(pr_pending)
    /\ pr_last' = [op |-> "code_analytique", row |-> Head(pr_pending).row,
                   before |-> pr_items, alert |-> FALSE, answered |-> Empty]
    /\ UNCHANGED <<pr_script, pr_items, pr_dashboard, pr_ops>>
    /\ UNCHANGED <<mrVars, poVars, inVars, vaVars>>

\* The callback of an ensure_budget_item call.
ensure_callback(d, i, info) ==
    IF ~info.message THEN [row |-> d, events |-> <<>>]
    ELSE LET s1 == SetValue(d, i, "item_code", info.item_code, <<>>)
             s2 == IF d.item_name = Empty
                   THEN SetValue(s1.row, i, "item_name",
                                 IF info.item_name # Empty THEN info.item_name
                                 ELSE info.item_code, s1.events)
                   ELSE s1
             s3 == IF s2.row.uom = Empty
                   THEN SetValue(s2.row, i, "uom",
                                 IF info.stock_uom # Empty THEN info.stock_uom ELSE Nos,
                                 s2.events)
                   ELSE s2
             s4 == IF s3.row.stock_uom = Empty
                   THEN SetValue(s3.row, i, "stock_uom",
                                 IF info.stock_uom # Empty THEN info.stock_uom ELSE Nos,
                                 s3.events)
                   ELSE s3
             s5 == IF s4.row.conversion_factor = 0
                   THEN SetValue(s4.row, i, "conversion_factor", 1, s4.events)
                   ELSE s4
         IN  s5

PREnsureCallback ==
    \E c \in pr_rpc : \E info \in EnsureBudgetItemAnswers(c.code) :
        LET res == ensure_callback(pr_items[c.row], c.row, info)
            \* only item_code has a handler in these scripts
            evs == SelectSeq(res.events, LAMBDA e : e.field = "item_code")
        IN  /\ pr_rpc' = pr_rpc \ {c}
            /\ pr_items' = [pr_items EXCEPT ![c.row] = res.row]
            /\ pr_pending' = pr_pending \o evs
            /\ pr_last' = [op |-> "ensure_callback", row |-> c.row, before |-> pr_items,
                           alert |-> FALSE,
                           answered |-> IF info.message THEN c.code ELSE Empty]
            /\ UNCHANGED <<pr_script, pr_dashboard, pr_ops>>
            /\ UNCHANGED <<mrVars, poVars, inVars, vaVars>>

\* refresh of the Purchase Receipt form (a draft): both scripts that have one.
PRRefresh ==
    /\ pr_script \in {CustomScript, ReceiptScript}
    /\ pr_pending = <<>>
    /\ pr_dashboard' = (pr_dashboard \/ (Len(pr_items) > 0 /\ invalid_items(pr_items) # {}))
    /\ pr_last' = [op |-> "refresh", row |-> 0, before |-> pr_items, alert |-> FALSE,
                   answered |-> Empty]
    /\ UNCHANGED <<pr_script, pr_items, pr_pending, pr_rpc, pr_ops>>
    /\ UNCHANGED <<mrVars, poVars, inVars, vaVars>>

\* The validate event of row i.
PRValidate ==
    /\ pr_script \in {CustomScript, ReceiptScript}
    /\ pr_pending = <<>>
    /\ \E i \in 1..Len(pr_items) :
        LET res == validate_handler(pr_script, pr_items[i], i)
        IN  /\ pr_items' = [pr_items EXCEPT ![i] = res.row]
            /\ pr_pending' = pr_pending \o res.events
            /\ pr_last' = [op |-> "validate", row |-> i, before |-> pr_items,
                           alert |-> FALSE, answered |-> Empty]
    /\ UNCHANGED <<pr_script, pr_rpc, pr_dashboard, pr_ops>>
    /\ UNCHANGED <<mrVars, poVars, inVars, vaVars>>

\* The document is saved: before_save of the Purchase Receipt form script.
PRBeforeSave ==
    /\ pr_script = ReceiptScript
    /\ pr_pending = <<>>
    /\ pr_ops < MaxPROps
    /\ LET res == before_save(pr_items, 1, <<>>)
       IN  /\ pr_items' = res.items
           /\ pr_pending' = pr_pending \o res.events
    /\ pr_ops' = pr_ops + 1
    /\ pr_last' = [op |-> "before_save", row |-> 0, before |-> pr_items, alert |-> FALSE,
                   answered |-> Empty]
    /\ UNCHANGED <<pr_script, pr_rpc, pr_dashboard>>
    /\ UNCHANGED <<mrVars, poVars, inVars, vaVars>>

PRNext ==
    \/ PRAddRow
    \/ PREditItemCode
    \/ PREditCodeAnalytique
    \/ PRItemCode
    \/ PRCodeAnalytique
    \/ PREnsureCallback
    \/ PRRefresh
    \/ PRValidate
    \/ PRBeforeSave

----------------------------------------------------------------------------
(* PO: the Purchase Order form script                                      *)

MaxPOOps == 3

\* Dates are day numbers; NoDate is a missing date.
NoDate == 0
Dates == {1, 2, 3}

\* Days added to transaction_date for a Required By date that is too early.
ScheduleShift == 7

Kg == <<"K", "g">>
BudgetLineLabel == <<"B", "u", "d", "g", "e", "t", " ", "L", "i", "n", "e">>

\* s.trim()
RECURSIVE TrimLeft(_)
TrimLeft(s) == IF s # <<>> /\ Head(s) = " " THEN TrimLeft(Tail(s)) ELSE s
RECURSIVE TrimRight(_)
TrimRight(s) ==
    IF s # <<>> /\ s[Len(s)] = " " THEN TrimRight(SubSeq(s, 1, Len(s) - 1)) ELSE s
Trim(s) == TrimRight(TrimLeft(s))

\* frappe.datetime.get_diff(a, b), in days, and frappe.datetime.add_days(d, n).
get_diff(a, b) == a - b
add_days(d, n) == d + n

NewPOItem == [item_code |-> Empty, code_analytique |-> Empty, item_name |-> Empty,
              details |-> Empty, qty |-> 0, rate |-> 0, uom |-> Empty,
              stock_uom |-> Empty, conversion_factor |-> 0, schedule_date |-> NoDate,
              amount |-> 0]

\* The budget lines get_multi_da_budget_lines may return.
LineFull == [code_analytique |-> <<"B", "1">>, description |-> <<"d">>, qty |-> 2,
             rate |-> 5, uom |-> Kg, schedule_date |-> 3]
LineBare == [code_analytique |-> Empty, description |-> Empty, qty |-> 0,
             rate |-> 0, uom |-> Empty, schedule_date |-> NoDate]
LineEarly == [code_analytique |-> <<"7">>, description |-> <<" ">>, qty |-> 3,
              rate |-> 0, uom |-> Empty, schedule_date |-> 1]
\* The answers of get_multi_da_budget_lines: no line, or lines in some order.
BudgetAnswers ==
    { <<>>, <<LineFull>>, <<LineBare>>, <<LineEarly, LineFull>>, <<LineBare, LineEarly>> }

\* item_code handler of Purchase Order Item
po_item_code(it, i) ==
    IF it.item_code # Empty /\ IsDigits(it.item_code)
    THEN LET fallback == it.code_analytique
         IN  IF fallback # Empty
             THEN SetValue(it, i, "item_code", fallback, <<>>)
             ELSE [row |-> it, events |-> <<>>]
    ELSE [row |-> it, events |-> <<>>]

\* validate_schedule_date with "not later" for "earlier".
validate_schedule_date_not_later(doc, item, i, events) ==
    IF item.schedule_date = NoDate \/ doc.transaction_date = NoDate
    THEN [row |-> item, events |-> events, alert |-> FALSE]
    ELSE IF get_diff(item.schedule_date, doc.transaction_date) <= 0
         THEN LET new_date == add_days(doc.transaction_date, ScheduleShift)
              IN  SetValue(item, i, "schedule_date", new_date, events) @@ [alert |-> TRUE]
         ELSE [row |-> item, events |-> events, alert |-> FALSE]

\* validate_schedule_date(frm, cdt, cdn): the row after it, the events and
\* whether the alert is shown.
validate_schedule_date(doc, item, i, events) ==
    IF item.schedule_date = NoDate \/ doc.transaction_date = NoDate
    THEN [row |-> item, events |-> events, alert |-> FALSE]
    ELSE IF get_diff(item.schedule_date, doc.transaction_date) < 0
         THEN LET new_date == add_days(doc.transaction_date, ScheduleShift)
              IN  SetValue(item, i, "schedule_date", new_date, events) @@ [alert |-> TRUE]
         ELSE [row |-> item, events |-> events, alert |-> FALSE]

\* code_analytique handler of Purchase Order Item: item_code, the description
\* call (in rpc), then the schedule date.
po_code_analytique(doc, item, i) ==
    LET s1 == IF item.code_analytique # Empty
              THEN SetValue(item, i, "item_code", item.code_analytique, <<>>)
              ELSE [row |-> item, events |-> <<>>]
        calls == IF item.code_analytique # Empty
                 THEN {[row |-> i, code |-> item.code_analytique]}
                 ELSE {}
    IN  validate_schedule_date(doc, s1.row, i, s1.events) @@ [calls |-> calls]

\* qty and rate handlers of Purchase Order Item (calculate_taxes_and_totals
\* is the host's and keeps no state here).
po_qty_rate(item, i) ==
    IF item.qty # 0 /\ item.rate # 0
    THEN SetValue(item, i, "amount", item.qty * item.rate, <<>>)
    ELSE [row |-> item, events |-> <<>>]

\* normalize_item_descriptions(frm) on the items.
normalize_item(it) ==
    LET name_is_budget_code ==
            /\ it.item_name # Empty
            /\ it.code_analytique # Empty
            /\ Trim(it.item_name) = Trim(it.code_analytique)
        has_details_desc == it.details # Empty /\ Len(Trim(it.details)) > 0
    IN  IF name_is_budget_code /\ has_details_desc
        THEN [it EXCEPT !.item_name = Trim(it.details), !.details = Empty]
        ELSE it

normalize_item_descriptions(items) == [k \in 1..Len(items) |-> normalize_item(items[k])]

\* The row add_budget_lines_to_po builds for one budget line. host is the date
\* the host's date library takes for a missing transaction_date (NoDate: an
\* invalid date, which compares as not earlier).
budget_row(doc, line, host) ==
    LET td == IF doc.transaction_date # NoDate THEN doc.transaction_date ELSE host
        qty == IF line.qty # 0 THEN line.qty ELSE 1
        rate == IF line.rate # 0 THEN line.rate ELSE 0
        sd0 == IF line.schedule_date # NoDate THEN line.schedule_date ELSE doc.schedule_date
        schedule_date ==
            IF sd0 = NoDate \/ (td # NoDate /\ get_diff(sd0, td) < 0)
            THEN (IF td = NoDate THEN NoDate ELSE add_days(td, ScheduleShift))
            ELSE sd0
    IN  [item_code |-> line.code_analytique,
         code_analytique |-> line.code_analytique,
         item_name |-> IF line.description # Empty /\ Trim(line.description) # Empty
                       THEN line.description
                       ELSE IF line.code_analytique # Empty THEN line.code_analytique
                            ELSE BudgetLineLabel,
         details |-> Empty,
         qty |-> qty,
         rate |-> rate,
         uom |-> IF line.uom # Empty THEN line.uom ELSE Nos,
         stock_uom |-> IF line.uom # Empty THEN line.uom ELSE Nos,
         conversion_factor |-> 1,
         schedule_date |-> schedule_date,
         amount |-> qty * rate]

\* add_children that keeps the quantity of the line as it is.
RECURSIVE add_children_qty_as_is(_, _, _, _)
add_children_qty_as_is(items, doc, budget_lines, host) ==
    IF budget_lines = <<>> THEN items
    ELSE add_children_qty_as_is(
             Append(items, [budget_row(doc, Head(budget_lines), host)
                               EXCEPT !.qty = Head(budget_lines).qty]),
             doc, Tail(budget_lines), host)

\* add_budget_lines_to_po(frm, budget_lines): one frm.add_child per line, in
\* order, then normalize_item_descriptions.
RECURSIVE add_children(_, _, _, _)
add_children(items, doc, budget_lines, host) ==
    IF budget_lines = <<>> THEN items
    ELSE add_children(Append(items, budget_row(doc, Head(budget_lines), host)),
                      doc, Tail(budget_lines), host)

\* add_budget_lines_to_po without the call of normalize_item_descriptions.
add_budget_lines_only(items, doc, budget_lines, host) ==
    add_children(items, doc, budget_lines, host)

\* add_budget_lines_to_po(frm, budget_lines) on the items: the rows are added,
\* then normalize_item_descriptions runs over the whole table.
add_budget_lines_to_po(items, doc, budget_lines, host) ==
    normalize_item_descriptions(add_children(items, doc, budget_lines, host))

\* The description frappe.client.get_value returns for an SDR Budget.
DescriptionOf(code) == <<"d">> \o code

NoPOOp == [op |-> "none", row |-> 0, before |-> <<>>, lines |-> <<>>, alert |-> FALSE]

POInit ==
    /\ po_doc \in [transaction_date : {NoDate, 2},
                   schedule_date : {NoDate, 1},
                   supplier : BOOLEAN,
                   docstatus : {0, 1}]
    /\ po_items = <<>>
    /\ po_pending = <<>>
    /\ po_rpc = {}
    /\ po_fetching = FALSE
    /\ po_timers = <<>>
    /\ po_button = FALSE
    /\ po_msg = "none"
    /\ po_ops = 0
    /\ po_writes = 0
    /\ po_last = NoPOOp

POIdle ==
    /\ po_doc = [transaction_date |-> NoDate, schedule_date |-> NoDate,
                 supplier |-> FALSE, docstatus |-> 0]
    /\ po_items = <<>>
    /\ po_pending = <<>>
    /\ po_rpc = {}
    /\ po_fetching = FALSE
    /\ po_timers = <<>>
    /\ po_button = FALSE
    /\ po_msg = "none"
    /\ po_ops = 0
    /\ po_writes = 0
    /\ po_last = NoPOOp

\* The user acts when the events of the previous operation have been handled
\* and the form is not frozen by fetch_da_lines.
POUserCanAct == po_pending = <<>> /\ ~po_fetching

\* The grid's "Add Row".
POAddRow ==
    /\ POUserCanAct
    /\ po_ops < MaxPOOps
    /\ po_items' = Append(po_items, NewPOItem)
    /\ po_ops' = po_ops + 1
    /\ po_writes' = 0
    /\ po_last' = [NoPOOp EXCEPT !.op = "add_row", !.row = Len(po_items) + 1,
                                 !.before = po_items]
    /\ UNCHANGED <<po_doc, po_pending, po_rpc, po_fetching, po_timers, po_button, po_msg>>
    /\ UNCHANGED <<mrVars, prVars, inVars, vaVars>>

POHandledFields == {"item_code", "code_analytique", "schedule_date", "qty", "rate"}

\* The user types a value into field f of row i.
POUserEdit(i, f, v) ==
    /\ POUserCanAct
    /\ po_ops < MaxPOOps
    /\ i \in 1..Len(po_items)
    /\ po_items[i][f] # v
    /\ po_items' = [po_items EXCEPT ![i][f] = v]
    /\ po_pending' = IF f \in POHandledFields
                     THEN Append(po_pending, [row |-> i, field |-> f])
                     ELSE po_pending
    /\ po_ops' = po_ops + 1
    /\ po_writes' = 0
    /\ po_last' = [NoPOOp EXCEPT !.op = "edit", !.row = i, !.before = po_items]
    /\ UNCHANGED <<po_doc, po_rpc, po_fetching, po_timers, po_button, po_msg>>
    /\ UNCHANGED <<mrVars, prVars, inVars, vaVars>>

POEditItemCode ==
    \E i \in 1..Len(po_items), v \in {<<"1">>, <<"I", "T">>} : POUserEdit(i, "item_code", v)
POEditCodeAnalytique ==
    \E i \in 1..Len(po_items), v \in CodeAnalytiqueInputs : POUserEdit(i, "code_analytique", v)
POEditScheduleDate ==
    \E i \in 1..Len(po_items), v \in {NoDate} \cup Dates : POUserEdit(i, "schedule_date", v)
POEditQty == \E i \in 1..Len(po_items), v \in {0, 2} : POUserEdit(i, "qty", v)
POEditRate == \E i \in 1..Len(po_items), v \in {0, 5} : POUserEdit(i, "rate", v)
POEditDetails ==
    \E i \in 1..Len(po_items), v \in {Empty, <<"x">>} : POUserEdit(i, "details", v)

\* The event at the head of the queue is handled.
POHandle(f, res) ==
    /\ po_pending # <<>>
    /\ Head(po_pending).field = f
    /\ po_items' = [po_items EXCEPT ![Head(po_pending).row] = res.row]
    /\ po_pending' = Tail(po_pending)
                     \o SelectSeq(res.events, LAMBDA e : e.field \in POHandledFields)
    /\ po_writes' = po_writes
                    + Len(SelectSeq(res.events, LAMBDA e : e.field = "item_code"))
    /\ po_last' = [NoPOOp EXCEPT !.op = f, !.row = Head(po_pending).row,
                                 !.before = po_items, !.alert = res.alert]
    /\ UNCHANGED <<po_doc, po_fetching, po_timers, po_button, po_msg, po_ops>>
    /\ UNCHANGED <<mrVars, prVars, inVars, vaVars>>

POItemCode ==
    /\ po_pending # <<>>
    /\ LET i == Head(po_pending).row
       IN  POHandle("item_code", po_item_code(po_items[i], i) @@ [alert |-> FALSE])
    /\ UNCHANGED po_rpc

POCodeAnalytique ==
    /\ po_pending # <<>>
    /\ LET i == Head(po_pending).row
           res == po_code_analytique(po_doc, po_items[i], i)
       IN  /\ POHandle("code_analytique", res)
           /\ po_rpc' = po_rpc \cup res.calls

POScheduleDate ==
    /\ po_pending # <<>>
    /\ LET i == Head(po_pending).row
       IN  POHandle("schedule_date", validate_schedule_date(po_doc, po_items[i], i, <<>>))
    /\ UNCHANGED po_rpc

POQtyRate ==
    /\ po_pending # <<>>
    /\ LET i == Head(po_pending).row
       IN  \E f \in {"qty", "rate"} :
               POHandle(f, po_qty_rate(po_items[i], i) @@ [alert |-> FALSE])
    /\ UNCHANGED po_rpc

\* The callback of the description call of the code_analytique handler.
PODescriptionCallback ==
    \E c \in po_rpc : \E description \in {Empty, DescriptionOf(c.code)} :
        LET item == po_items[c.row]
            res == IF description # Empty
                   THEN SetValue(item, c.row, "item_name", description, <<>>)
                   ELSE [row |-> item, events |-> <<>>]
        IN  /\ po_rpc' = po_rpc \ {c}
            /\ po_items' = [po_items EXCEPT ![c.row] = res.row]
            /\ po_last' = [NoPOOp EXCEPT !.op = "description_callback", !.row = c.row,
                                         !.before = po_items]
            /\ UNCHANGED <<po_doc, po_pending, po_fetching, po_timers, po_button,
                           po_msg, po_ops, po_writes>>
            /\ UNCHANGED <<mrVars, prVars, inVars, vaVars>>

\* refresh of the Purchase Order form.
PORefresh ==
    /\ POUserCanAct
    /\ po_button' = (po_doc.docstatus = 0 /\ po_doc.supplier)
    /\ po_items' = IF po_doc.docstatus = 0 THEN normalize_item_descriptions(po_items)
                   ELSE po_items
    /\ po_last' = [NoPOOp EXCEPT !.op = "refresh", !.before = po_items]
    /\ UNCHANGED <<po_doc, po_pending, po_rpc, po_fetching, po_timers, po_msg, po_ops,
                    po_writes>>
    /\ UNCHANGED <<mrVars, prVars, inVars, vaVars>>

\* fetch_demande_materiel(frm), from the custom button or from
\* get_items_from_open_material_requests; selected: the dialog's action is
\* called with a non-empty selection, which calls fetch_da_lines.
POFetch ==
    /\ POUserCanAct
    /\ po_ops < MaxPOOps
    /\ po_ops' = po_ops + 1
    /\ \E selected \in BOOLEAN :
        IF ~po_doc.supplier
        THEN /\ po_msg' = "Please select a Supplier first."
             /\ UNCHANGED po_fetching
        ELSE /\ po_fetching' = selected
             /\ UNCHANGED po_msg
    /\ po_last' = [NoPOOp EXCEPT !.op = "fetch", !.before = po_items]
    /\ UNCHANGED <<po_doc, po_items, po_pending, po_rpc, po_timers, po_button, po_writes>>
    /\ UNCHANGED <<mrVars, prVars, inVars, vaVars>>

has_budget_lines_always(message) == TRUE

\* r.message && r.message.length > 0; a missing message is the empty list.
has_budget_lines(message) == Len(message) > 0

\* The callback of fetch_da_lines with the budget lines of the answer.
POFetchCallback ==
    /\ po_fetching
    /\ \E budget_lines \in BudgetAnswers, host \in {NoDate, 2} :
        /\ (po_doc.transaction_date # NoDate => host = NoDate)
        /\ IF has_budget_lines(budget_lines)
           THEN /\ po_items' = add_budget_lines_to_po(po_items, po_doc, budget_lines, host)
                /\ po_timers' = Append(po_timers,
                                       [k \in 1..Len(budget_lines) |-> Len(po_items) + k])
                /\ po_msg' = "Added budget lines"
           ELSE /\ po_msg' = "No budget lines found."
                /\ UNCHANGED <<po_items, po_timers>>
        /\ po_last' = [NoPOOp EXCEPT !.op = "import", !.before = po_items,
                                     !.lines = budget_lines]
    /\ po_fetching' = FALSE
    /\ UNCHANGED <<po_doc, po_pending, po_rpc, po_button, po_ops, po_writes>>
    /\ UNCHANGED <<mrVars, prVars, inVars, vaVars>>

\* The setTimeout callback of add_budget_lines_to_po: the qty event of every
\* added row.
RECURSIVE trigger_qty(_, _)
trigger_qty(items, added_rows) ==
    IF added_rows = <<>> THEN items
    ELSE LET i == Head(added_rows)
         IN  trigger_qty([items EXCEPT ![i] = po_qty_rate(items[i], i).row],
                         Tail(added_rows))

POTimer ==
    /\ po_timers # <<>>
    /\ po_items' = trigger_qty(po_items, Head(po_timers))
    /\ po_timers' = Tail(po_timers)
    /\ po_last' = [NoPOOp EXCEPT !.op = "timer", !.before = po_items]
    /\ UNCHANGED <<po_doc, po_pending, po_rpc, po_fetching, po_button, po_msg, po_ops,
                    po_writes>>
    /\ UNCHANGED <<mrVars, prVars, inVars, vaVars>>

PONext ==
    \/ POAddRow
    \/ POEditItemCode
    \/ POEditCodeAnalytique
    \/ POEditScheduleDate
    \/ POEditQty
    \/ POEditRate
    \/ POEditDetails
    \/ POItemCode
    \/ POCodeAnalytique
    \/ POScheduleDate
    \/ POQtyRate
    \/ PODescriptionCallback
    \/ PORefresh
    \/ POFetch
    \/ POFetchCallback
    \/ POTimer

----------------------------------------------------------------------------
(* IN: install_on_target.sh                                                *)

\* The checks and the steps of the script, in the order of the file.
InChecks == <<"check_bench", "check_sdrt", "check_arg", "check_site">>
InSteps == <<"move_app", "apps_txt", "get_app", "install_app", "clear_cache",
             "build", "migrate", "restart", "verify">>

\* set -e: the script exits when a command fails.
set_e_off == FALSE
set_e == TRUE

\* The exit statuses of a failing command.
FailStatuses == {1, 2}

InErrors == {"not a frappe-bench directory", "sdrt directory not found",
             "provide the site name", "site not found"}

\* The test of each check, on the directory the script runs in.
precondition_without_site(env, check) ==
    CASE check = "check_bench" -> env.apps_txt
      [] check = "check_sdrt" -> env.sdrt_dir
      [] check = "check_arg" -> env.site_arg
      [] check = "check_site" -> TRUE

precondition(env, check) ==
    CASE check = "check_bench" -> env.apps_txt
      [] check = "check_sdrt" -> env.sdrt_dir
      [] check = "check_arg" -> env.site_arg
      [] check = "check_site" -> env.site_dir

InErrorOf(check) ==
    CASE check = "check_bench" -> "not a frappe-bench directory"
      [] check = "check_sdrt" -> "sdrt directory not found"
      [] check = "check_arg" -> "provide the site name"
      [] check = "check_site" -> "site not found"

IndexOf(seq, x) == CHOOSE k \in 1..Len(seq) : seq[k] = x

InAfter(pc) ==
    IF pc \in {InChecks[k] : k \in 1..Len(InChecks)}
    THEN (IF IndexOf(InChecks, pc) < Len(InChecks)
          THEN InChecks[IndexOf(InChecks, pc) + 1] ELSE InSteps[1])
    ELSE (IF IndexOf(InSteps, pc) < Len(InSteps)
          THEN InSteps[IndexOf(InSteps, pc) + 1] ELSE "done")

NoExit == -1

INInit ==
    /\ in_env \in [apps_txt : BOOLEAN, sdrt_dir : BOOLEAN, site_arg : BOOLEAN,
                   site_dir : BOOLEAN, app_in_apps : BOOLEAN, listed : BOOLEAN]
    /\ in_pc = "check_bench"
    /\ in_exit = NoExit
    /\ in_fs = [sdrt_moved |-> FALSE, apps_txt_appended |-> FALSE]
    /\ in_cmds = <<>>
    /\ in_steps = <<>>
    /\ in_failed = {}
    /\ in_out = {}

INIdle ==
    /\ in_env = [apps_txt |-> TRUE, sdrt_dir |-> TRUE, site_arg |-> TRUE,
                 site_dir |-> TRUE, app_in_apps |-> FALSE, listed |-> FALSE]
    /\ in_pc = "done"
    /\ in_exit = NoExit
    /\ in_fs = [sdrt_moved |-> FALSE, apps_txt_appended |-> FALSE]
    /\ in_cmds = <<>>
    /\ in_steps = <<>>
    /\ in_failed = {}
    /\ in_out = {}

\* One of the four checks: an unmet one prints its error and exits with 1.
\* (For a missing site the listing of sites/ comes before the exit; under
\* set -e an empty listing ends the script there, with grep's status 1.)
INCheck ==
    /\ in_pc \in {InChecks[k] : k \in 1..Len(InChecks)}
    /\ IF precondition(in_env, in_pc)
       THEN /\ in_pc' = InAfter(in_pc)
            /\ UNCHANGED <<in_exit, in_out>>
       ELSE /\ in_pc' = "done"
            /\ in_exit' = 1
            /\ in_out' = in_out \cup {InErrorOf(in_pc)}
    /\ UNCHANGED <<in_env, in_fs, in_cmds, in_steps, in_failed>>
    /\ UNCHANGED <<mrVars, prVars, poVars, vaVars>>

\* What follows a command of step s that returned ok or failed with status st.
INAfterCommand(s, ok, st) ==
    IF ok \/ ~set_e
    THEN /\ in_pc' = InAfter(s)
         /\ UNCHANGED in_exit
    ELSE /\ in_pc' = "done"
         /\ in_exit' = st

\* Step 1: mv sdrt apps/ unless apps/sdrt is there.
INMoveApp ==
    /\ in_pc = "move_app"
    /\ in_steps' = Append(in_steps, "move_app")
    /\ IF ~in_env.app_in_apps
       THEN \E ok \in BOOLEAN, st \in FailStatuses :
               /\ (ok => st = 1)
               /\ in_fs' = [in_fs EXCEPT !.sdrt_moved = ok]
               /\ in_failed' = IF ok THEN in_failed ELSE in_failed \cup {"move_app"}
               /\ INAfterCommand("move_app", ok, st)
       ELSE /\ in_pc' = InAfter("move_app")
            /\ UNCHANGED <<in_fs, in_failed, in_exit>>
    /\ UNCHANGED <<in_env, in_cmds, in_out>>
    /\ UNCHANGED <<mrVars, prVars, poVars, vaVars>>

\* Step 2: echo "sdrt" >> sites/apps.txt unless the line is there.
INAppsTxt ==
    /\ in_pc = "apps_txt"
    /\ in_steps' = Append(in_steps, "apps_txt")
    /\ IF ~in_env.listed
       THEN \E ok \in BOOLEAN, st \in FailStatuses :
               /\ (ok => st = 1)
               /\ in_fs' = [in_fs EXCEPT !.apps_txt_appended = ok]
               /\ in_failed' = IF ok THEN in_failed ELSE in_failed \cup {"apps_txt"}
               /\ INAfterCommand("apps_txt", ok, st)
       ELSE /\ in_pc' = InAfter("apps_txt")
            /\ UNCHANGED <<in_fs, in_failed, in_exit>>
    /\ UNCHANGED <<in_env, in_cmds, in_out>>
    /\ UNCHANGED <<mrVars, prVars, poVars, vaVars>>

\* Step 3: bench get-app "$APP_PATH" || echo "App may already be registered".
INGetApp ==
    /\ in_pc = "get_app"
    /\ in_steps' = Append(in_steps, "get_app")
    /\ in_cmds' = Append(in_cmds, "get-app")
    /\ \E ok \in BOOLEAN :
          /\ in_failed' = IF ok THEN in_failed ELSE in_failed \cup {"get_app"}
          /\ in_out' = IF ok THEN in_out ELSE in_out \cup {"app may already be registered"}
    /\ in_pc' = InAfter("get_app")
    /\ UNCHANGED <<in_env, in_fs, in_exit>>
    /\ UNCHANGED <<mrVars, prVars, poVars, vaVars>>

InBenchCommand(s) ==
    CASE s = "install_app" -> "install-app"
      [] s = "clear_cache" -> "clear-cache"
      [] s = "build" -> "build"
      [] s = "migrate" -> "migrate"
      [] s = "restart" -> "restart"

\* Steps 4 to 7: one bench command each.
INBench ==
    /\ in_pc \in {"install_app", "clear_cache", "build", "migrate", "restart"}
    /\ in_steps' = Append(in_steps, in_pc)
    /\ in_cmds' = Append(in_cmds, InBenchCommand(in_pc))
    /\ \E ok \in BOOLEAN, st \in FailStatuses :
          /\ (ok => st = 1)
          /\ in_failed' = IF ok THEN in_failed ELSE in_failed \cup {in_pc}
          /\ INAfterCommand(in_pc, ok, st)
    /\ UNCHANGED <<in_env, in_fs, in_out>>
    /\ UNCHANGED <<mrVars, prVars, poVars, vaVars>>

\* Step 8: if bench list-apps | grep -q "sdrt", the success message, else a
\* warning; then the closing hints, and the script ends with status 0.
INVerify ==
    /\ in_pc = "verify"
    /\ in_steps' = Append(in_steps, "verify")
    /\ in_cmds' = Append(in_cmds, "list-apps")
    /\ \E ok \in BOOLEAN :
          /\ in_failed' = IF ok THEN in_failed ELSE in_failed \cup {"verify"}
          /\ in_out' = in_out \cup {IF ok THEN "installation completed successfully"
                                    ELSE "installation may have issues"}
    /\ in_pc' = "done"
    /\ in_exit' = 0
    /\ UNCHANGED <<in_env, in_fs>>
    /\ UNCHANGED <<mrVars, prVars, poVars, vaVars>>

INNext == INCheck \/ INMoveApp \/ INAppsTxt \/ INGetApp \/ INBench \/ INVerify

----------------------------------------------------------------------------
(* VA: the validation script                                               *)

FILES_TO_CHECK == <<"pyproject.toml", "README.md", "license.txt", "sdrt/__init__.py",
                    "sdrt/hooks.py", "sdrt/modules.txt", "sdrt/patches.txt">>
REQUIRED_HOOKS == <<"app_name", "app_title", "app_publisher", "app_description",
                    "app_email", "app_license">>

VAInit ==
    /\ va_pc = "files"
    /\ va_i = 1
    /\ va_present = {}
    /\ MISSING_FILES = 0
    /\ va_failed = {}
    /\ va_exit = NoExit

VAIdle ==
    /\ va_pc = "done"
    /\ va_i = 1
    /\ va_present = {}
    /\ MISSING_FILES = 0
    /\ va_failed = {}
    /\ va_exit = NoExit

\* The result of a check: the counter and the failed checks after it.
VACount(ok, name) ==
    /\ MISSING_FILES' = IF ok THEN MISSING_FILES ELSE MISSING_FILES + 1
    /\ va_failed' = IF ok THEN va_failed ELSE va_failed \cup {name}

\* One turn of the loop over FILES_TO_CHECK: [ -f "$file" ].
VACheckFile ==
    /\ va_pc = "files"
    /\ \E present \in BOOLEAN :
          /\ va_present' = IF present THEN va_present \cup {FILES_TO_CHECK[va_i]}
                           ELSE va_present
          /\ VACount(present, FILES_TO_CHECK[va_i])
    /\ IF va_i < Len(FILES_TO_CHECK)
       THEN va_i' = va_i + 1 /\ va_pc' = "files"
       ELSE va_i' = 1 /\ va_pc' = "version"
    /\ UNCHANGED va_exit
    /\ UNCHANGED <<mrVars, prVars, poVars, inVars>>

\* grep -q "__version__" sdrt/__init__.py
VACheckVersion ==
    /\ va_pc = "version"
    /\ \E found \in BOOLEAN :
          /\ (found => "sdrt/__init__.py" \in va_present)
          /\ VACount(found, "__version__")
    /\ va_pc' = "hooks"
    /\ UNCHANGED <<va_i, va_present, va_exit>>
    /\ UNCHANGED <<mrVars, prVars, poVars, inVars>>

\* One turn of the loop over REQUIRED_HOOKS: grep -q "^$hook" sdrt/hooks.py
VACheckHook ==
    /\ va_pc = "hooks"
    /\ \E found \in BOOLEAN :
          /\ (found => "sdrt/hooks.py" \in va_present)
          /\ VACount(found, REQUIRED_HOOKS[va_i])
    /\ IF va_i < Len(REQUIRED_HOOKS)
       THEN va_i' = va_i + 1 /\ va_pc' = "hooks"
       ELSE va_i' = 1 /\ va_pc' = "modules"
    /\ UNCHANGED <<va_present, va_exit>>
    /\ UNCHANGED <<mrVars, prVars, poVars, inVars>>

\* [ -s "sdrt/modules.txt" ]
VACheckModules ==
    /\ va_pc = "modules"
    /\ \E nonempty \in BOOLEAN :
          /\ (nonempty => "sdrt/modules.txt" \in va_present)
          /\ VACount(nonempty, "modules.txt")
    /\ va_pc' = "doctypes"
    /\ UNCHANGED <<va_i, va_present, va_exit>>
    /\ UNCHANGED <<mrVars, prVars, poVars, inVars>>

\* The doctype count: printed, never counted.
VACheckDoctypes ==
    /\ va_pc = "doctypes"
    /\ va_pc' = "toml"
    /\ UNCHANGED <<va_i, va_present, MISSING_FILES, va_failed, va_exit>>
    /\ UNCHANGED <<mrVars, prVars, poVars, inVars>>

\* python3 -c "import tomllib; tomllib.load(open('pyproject.toml', 'rb'))"
VACheckToml ==
    /\ va_pc = "toml"
    /\ \E valid \in BOOLEAN :
          /\ (valid => "pyproject.toml" \in va_present)
          /\ VACount(valid, "pyproject.toml syntax")
    /\ va_pc' = "summary"
    /\ UNCHANGED <<va_i, va_present, va_exit>>
    /\ UNCHANGED <<mrVars, prVars, poVars, inVars>>

\* The final summary: "ALL CHECKS PASSED" or "VALIDATION FAILED", then the
\* last echo; the script has no exit statement, so its status is that of the
\* last echo.
VASummary ==
    /\ va_pc = "summary"
    /\ va_pc' = "done"
    /\ va_exit' = 0
    /\ UNCHANGED <<va_i, va_present, MISSING_FILES, va_failed>>
    /\ UNCHANGED <<mrVars, prVars, poVars, inVars>>

VANext ==
    \/ VACheckFile
    \/ VACheckVersion
    \/ VACheckHook
    \/ VACheckModules
    \/ VACheckDoctypes
    \/ VACheckToml
    \/ VASummary


----------------------------------------------------------------------------
(* C1, C2                                                                  *)

RowEvents == {"qte", "pu", "form_render"}

\* C1: after the qte or pu change handler, or form_render, has run on a row,
\* the row's estimation equals qte * pu, a missing or non-numeric value
\* counted as 0.
EstimationIsProduct ==
    (mr_last.event \in RowEvents /\ mr_last.ran > 0)
        => dd[mr_last.row].estimation = Num(Product(dd[mr_last.row]))

\* C2: the calculators write estimation only when the recomputed value
\* differs: an event on a row whose estimation already equals qte * pu writes
\* nothing, and one edit that changes the product causes exactly one write.
WritesOnlyOnChange ==
    (mr_last.event \in RowEvents /\ mr_last.ran > 0)
        => /\ (mr_last.edited.estimation = Num(Product(mr_last.edited)))
                => mr_last.writes = 0
           /\ (/\ mr_last.event \in {"qte", "pu"}
               /\ Product(mr_last.before) # Product(mr_last.edited))
                => mr_last.writes = 1

RECURSIVE SumEstimation(_)
SumEstimation(rows) ==
    IF rows = <<>> THEN 0
    ELSE fltOr0(Head(rows).estimation) + SumEstimation(Tail(rows))

TotalEvents == {"qte", "pu"} \cup TotalOnlyEvents

\* C11: after the form script has handled refresh, a row added or removed, or
\* a qte or pu edit, the handler has completed without error and
\* total_estimation is the sum of estimation over the rows of demande_dachat.
TotalIsSum ==
    (mr_last.event \in TotalEvents /\ \E k \in 1..Len(registered) : registered[k] = FormScript)
        => /\ ~mr_last.threw
           /\ total_estimation = Num(SumEstimation(dd))

----------------------------------------------------------------------------
(* C3, C8, C9                                                              *)

\* C3: when the item_code guard runs on a row: an all-digit item_code with a
\* non-empty code_analytique becomes code_analytique; an all-digit item_code
\* with an empty code_analytique is left untouched; an item_code that is not
\* all digits is left unchanged.
GuardUsesFallback ==
    pr_last.op = "item_code" =>
        LET b == pr_last.before[pr_last.row]
            a == pr_items[pr_last.row]
        IN  /\ (IsDigits(b.item_code) /\ b.code_analytique # Empty)
                    => a.item_code = b.code_analytique
            /\ (IsDigits(b.item_code) /\ b.code_analytique = Empty)
                    => a.item_code = b.item_code
            /\ ~IsDigits(b.item_code) => a.item_code = b.item_code

\* C8: after before_save has run, no row of the items has an item_code that
\* consists only of digits.
NoDigitCodeAfterSave ==
    pr_last.op = "before_save" => invalid_items(pr_items) = {}

\* C9: a guard callback that finds an all-digit item_code and no fallback
\* changes no field and shows no notice; a notice is shown only when the
\* callback changed the row.
SilentWithoutFallback ==
    (pr_last.op = "item_code" /\ pr_script \in {ReceiptScript, PublicScript}) =>
        LET b == pr_last.before[pr_last.row]
            a == pr_items[pr_last.row]
        IN  /\ (IsDigits(b.item_code) /\ b.code_analytique = Empty)
                    => (a = b /\ ~pr_last.alert)
            /\ pr_last.alert => a # b

GuardOps == {"item_code", "validate", "before_save"}

\* The item_code each registered guard leaves on row b: the item_code
\* handlers of the three scripts, the validate handlers of the two scripts
\* that have one, and before_save.
GuardResults(b) ==
    {item_code_handler(s, b, 1).row.item_code : s \in PRScripts}
    \cup {validate_handler(s, b, 1).row.item_code : s \in {CustomScript, ReceiptScript}}
    \cup {before_save(<<b>>, 1, <<>>).items[1].item_code}

\* C13: the guards at item_code change, row validate and before_save, of all
\* the Purchase Receipt scripts, agree: when one of them has run on a row,
\* the item_code it left is the item_code every one of them leaves on the
\* row it found.
GuardsAgree ==
    pr_last.op \in GuardOps =>
        \A i \in 1..Len(pr_last.before) :
            (pr_last.row \in {0, i})
                => GuardResults(pr_last.before[i]) = {pr_items[i].item_code}

\* C14: code_analytique of a row was changed while the call issued for its
\* former value was outstanding; once the callbacks of all the calls of the
\* row have been delivered, in any order, the item_code written by the last
\* callback is the item of the row's current code_analytique, never the item
\* of a stale answer.
CallbackMatchesCurrentCode ==
    LET i == pr_last.row
    IN  ( /\ pr_last.op = "ensure_callback"
          /\ pr_last.answered # Empty
          /\ \A c \in pr_rpc : c.row # i
          /\ \A k \in 1..Len(pr_pending) :
                ~(pr_pending[k].row = i /\ pr_pending[k].field = "code_analytique")
          /\ pr_items[i].code_analytique # Empty )
        => pr_items[i].item_code = pr_items[i].code_analytique

----------------------------------------------------------------------------
(* C4, C10                                                                 *)

\* C4: a Purchase Order item whose schedule date is earlier than the order's
\* transaction date gets transaction date + 7 days, and a schedule date on or
\* after the transaction date stays as it is: after the schedule_date and
\* code_analytique handlers, and for every row the budget-line import creates
\* (from the line's schedule date, else the order's).
ScheduleDateRule ==
    LET td == po_doc.transaction_date
        Rule(sd, after) ==
            (sd # NoDate /\ td # NoDate) =>
                /\ sd < td => after = td + 7
                /\ sd >= td => after = sd
    IN  /\ po_last.op \in {"schedule_date", "code_analytique"}
            => Rule(po_last.before[po_last.row].schedule_date,
                    po_items[po_last.row].schedule_date)
        /\ po_last.op = "import"
            => \A k \in 1..Len(po_last.lines) :
                  LET line == po_last.lines[k]
                  IN  Rule(IF line.schedule_date # NoDate THEN line.schedule_date
                           ELSE po_doc.schedule_date,
                           po_items[Len(po_last.before) + k].schedule_date)

\* Witness of C4: the import created a row from an early line (shifted) and a
\* row from a late line (kept), and then the schedule_date handler shifted the
\* early date the user typed into row 1.
ScheduleDateShifted ==
    /\ po_doc.transaction_date = 2
    /\ po_last.op = "schedule_date"
    /\ po_last.row = 1
    /\ Len(po_items) = 2
    /\ po_last.before[1].schedule_date = 1
    /\ po_items[1].schedule_date = 9
    /\ po_items[1].code_analytique = LineEarly.code_analytique
    /\ po_items[2].code_analytique = LineFull.code_analytique
    /\ po_items[2].schedule_date = LineFull.schedule_date

\* C10: the import appends one row per budget line of the answer, in the
\* answer's order, with item_code the line's code_analytique, qty 1 and rate 0
\* when the line has none, uom and stock_uom "Nos" when the line has no uom,
\* conversion_factor 1 and amount qty * rate; lines imported again are
\* appended again.
ImportAppendsLines ==
    po_last.op = "import" =>
        /\ Len(po_items) = Len(po_last.before) + Len(po_last.lines)
        /\ \A k \in 1..Len(po_last.lines) :
              LET line == po_last.lines[k]
                  row == po_items[Len(po_last.before) + k]
              IN  /\ row.item_code = line.code_analytique
                  /\ row.code_analytique = line.code_analytique
                  /\ row.qty = (IF line.qty = 0 THEN 1 ELSE line.qty)
                  /\ row.rate = line.rate
                  /\ row.uom = (IF line.uom = Empty THEN Nos ELSE line.uom)
                  /\ row.stock_uom = row.uom
                  /\ row.conversion_factor = 1
                  /\ row.amount = row.qty * row.rate

\* Witness of C10: the same two lines have been imported twice, and the table
\* holds them twice.
ImportedTwice ==
    /\ po_last.op = "import"
    /\ po_last.lines = <<LineBare, LineEarly>>
    /\ Len(po_last.before) = 2
    /\ Len(po_items) = 4
    /\ \A k \in 1..2 :
          /\ po_items[k].code_analytique = po_last.lines[k].code_analytique
          /\ po_items[k + 2].code_analytique = po_last.lines[k].code_analytique
          /\ po_items[k + 2].qty = po_items[k].qty
    /\ po_items[3].qty = 1
    /\ po_items[3].uom = Nos

\* C12: fetch_demande_materiel without a supplier shows a message, issues no
\* RPC and leaves the items table unchanged; an empty or missing answer of the
\* RPC shows 'No budget lines found.' and leaves the table unchanged; the
\* import adds rows only with a supplier and a non-empty answer; after refresh
\* the custom button is there only when docstatus is 0 and a supplier is set.
ImportOnlyWithSupplierAndLines ==
    /\ (po_last.op = "fetch" /\ ~po_doc.supplier)
           => /\ po_msg = "Please select a Supplier first."
              /\ ~po_fetching
              /\ po_items = po_last.before
    /\ (po_last.op = "import" /\ po_last.lines = <<>>)
           => /\ po_msg = "No budget lines found."
              /\ po_items = po_last.before
    /\ (po_last.op \in {"fetch", "import"} /\ Len(po_items) > Len(po_last.before))
           => (po_doc.supplier /\ po_last.lines # <<>>)
    /\ po_last.op = "refresh"
           => (po_button <=> (po_doc.docstatus = 0 /\ po_doc.supplier))

\* An empty answer arrived for an order that already had rows.
EmptyAnswerOnFilledOrder ==
    /\ po_last.op = "import"
    /\ po_last.lines = <<>>
    /\ po_items # <<>>
    /\ po_msg = "No budget lines found."

\* C15: the cascade a single user edit of item_code or code_analytique starts
\* on a Purchase Order Item ends after finitely many writes: the handlers
\* write item_code at most once before the next user edit, whatever the two
\* values are, an all-digit code_analytique included.
CascadeEndsAfterOneWrite == po_writes <= 1

\* The cascade of an edit with an all-digit code_analytique has ended: the
\* handlers wrote item_code once, the item_code handler then ran on the
\* all-digit value and no event is left.
CascadeEndedOnDigitCode ==
    /\ po_last.op = "item_code"
    /\ po_pending = <<>>
    /\ po_writes = 1
    /\ IsDigits(po_last.before[po_last.row].item_code)
    /\ IsDigits(po_items[po_last.row].code_analytique)
    /\ po_items[po_last.row].item_code = po_items[po_last.row].code_analytique

\* The rows that were in the table before the import.
OldRows == 1..Len(po_last.before)

\* C16 as stated: after add_budget_lines_to_po every row that was in the items
\* table before the import has the same fields as before.
ImportKeepsOldRows ==
    (po_last.op = "import" /\ po_last.lines # <<>>)
        => \A k \in OldRows : po_items[k] = po_last.before[k]

\* C16 as the code has it: after add_budget_lines_to_po every row that was in
\* the table before the import is what normalize_item_descriptions makes of
\* it: a row whose item_name is its code_analytique and whose details are not
\* blank gets the trimmed details as item_name and empty details; every
\* other row, and every other field, is as before.
ImportNormalizesOldRows ==
    (po_last.op = "import" /\ po_last.lines # <<>>)
        => \A k \in OldRows :
              LET b == po_last.before[k]
                  moved == /\ b.item_name # Empty
                           /\ b.code_analytique # Empty
                           /\ Trim(b.item_name) = Trim(b.code_analytique)
                           /\ Trim(b.details) # Empty
              IN  po_items[k] = IF moved
                                THEN [b EXCEPT !.item_name = Trim(b.details),
                                               !.details = Empty]
                                ELSE b

\* An import has rewritten the label of a row that was there before it.
ImportRelabelledOldRow ==
    /\ po_last.op = "import"
    /\ po_last.lines # <<>>
    /\ \E k \in OldRows :
          /\ po_last.before[k].details # Empty
          /\ po_items[k].item_name = Trim(po_last.before[k].details)
          /\ po_items[k].item_name # po_last.before[k].item_name
          /\ po_items[k].details = Empty

----------------------------------------------------------------------------
(* C5, C6, C7                                                              *)

InUnmet ==
    ~in_env.apps_txt \/ ~in_env.sdrt_dir \/ ~in_env.site_arg \/ ~in_env.site_dir

\* C5: when a precondition of the installation script is unmet, the script
\* prints an error and exits with status 1 without side effects: sdrt is not
\* moved, sites/apps.txt is not modified and no bench command is invoked.
UnmetPreconditionNoEffect ==
    InUnmet =>
        /\ ~in_fs.sdrt_moved
        /\ ~in_fs.apps_txt_appended
        /\ in_cmds = <<>>
        /\ in_pc \in {InChecks[k] : k \in 1..Len(InChecks)} \cup {"done"}
        /\ in_pc = "done" => (in_exit = 1 /\ in_out \cap InErrors # {})

\* Witness of C5: the script has ended on a missing site, the last check.
EndedOnMissingSite ==
    /\ in_env.apps_txt /\ in_env.sdrt_dir /\ in_env.site_arg /\ ~in_env.site_dir
    /\ in_pc = "done"
    /\ in_exit = 1
    /\ in_out = {"site not found"}

\* The steps run in the order of the script.
InOrder ==
    \A k \in 1..Len(in_steps) : in_steps[k] = InSteps[k]

\* C6 as stated: the steps run in order, and when a command of any step has
\* failed, no later step is executed and the success message is not printed.
StopsAtFirstFailure ==
    /\ InOrder
    /\ \A s \in in_failed :
          /\ in_steps[Len(in_steps)] = s
          /\ "installation completed successfully" \notin in_out

\* C6 as amended: the same for every step but get-app, whose failure prints a
\* warning and lets the installation go on; a failure of one of the commands
\* before the verification ends the script with a status other than 0.
StopsAtFirstFailureButGetApp ==
    /\ InOrder
    /\ \A s \in in_failed \ {"get_app"} :
          /\ in_steps[Len(in_steps)] = s
          /\ "installation completed successfully" \notin in_out
          /\ in_pc = "done"
          /\ s # "verify" => in_exit \in FailStatuses
    /\ "get_app" \in in_failed => "app may already be registered" \in in_out

\* Witness of C6: get-app failed and was tolerated, then migrate failed and
\* the script ended there.
EndedOnFailedMigrate ==
    /\ in_failed = {"get_app", "migrate"}
    /\ in_pc = "done"
    /\ in_steps = SubSeq(InSteps, 1, 7)
    /\ in_exit \in FailStatuses

\* C7: the validation script exits with status 1 when a required file is
\* missing or a check fails, and with status 0 only when every check passed.
ValidationExitStatus ==
    va_pc = "done" =>
        /\ va_failed # {} => va_exit = 1
        /\ va_exit = 0 => va_failed = {}

----------------------------------------------------------------------------
(* The specifications                                                      *)

InitMR == MRInit /\ PRIdle /\ POIdle /\ INIdle /\ VAIdle
SpecMR == InitMR /\ [][MRNext]_vars

InitPR == PRInit /\ MRIdle /\ POIdle /\ INIdle /\ VAIdle
SpecPR == InitPR /\ [][PRNext]_vars

InitPO == POInit /\ MRIdle /\ PRIdle /\ INIdle /\ VAIdle
SpecPO == InitPO /\ [][PONext]_vars

InitIN == INInit /\ MRIdle /\ PRIdle /\ POIdle /\ VAIdle
SpecIN == InitIN /\ [][INNext]_vars

InitVA == VAInit /\ MRIdle /\ PRIdle /\ POIdle /\ INIdle
SpecVA == InitVA /\ [][VANext]_vars

\* The whole: every part from its initial state.
Init == MRInit /\ PRInit /\ POInit /\ INInit /\ VAInit
Next == MRNext \/ PRNext \/ PONext \/ INNext \/ VANext
Spec == Init /\ [][Next]_vars

====
